---- MODULE Spec2Model ----
(***************************************************************************)
(* League API (konflex/node-express-server): the three Express handlers    *)
(* of LeagueController (createLeague, getUsersFromLeague, updateTeamName), *)
(* the pass-through LeagueService, and the Couchbase collection/cluster    *)
(* they call.  Each handler is an async function: it runs up to its next   *)
(* await, suspends while the store call is in flight, and resumes when the *)
(* call resolves or rejects.  Several requests may be in flight at once:   *)
(* rq is the bag of the suspended handlers, last the record of the handler *)
(* that returned last.                                                     *)
(***************************************************************************)
EXTENDS Integers, Sequences, FiniteSets, Bags, TLC

VARIABLES store, rq, last

vars == <<store, rq, last>>

(* ---------------------------- bounds ----------------------------------- *)
\* number of requests that may be in flight at the same time
MaxInFlight == 2
\* largest number of rows a query result carries
MaxRows == 2

(* ------------------------- JavaScript values --------------------------- *)
\* A request value is tagged with what `typeof` answers for it.
Str(s) == [t |-> "string", v |-> s]
Undefined == [t |-> "undefined", v |-> ""]
Null == [t |-> "object", v |-> "null"]
Num(n) == [t |-> "number", v |-> n]
\* a plain object whose own properties are the record f
Obj(f) == [t |-> "object", v |-> "", fields |-> f]
\* a mapping with ordered own properties: a sequence of <<key, value>>
MapV(e) == [t |-> "object", v |-> "map", entries |-> e]
\* an array
ArrV(xs) == [t |-> "object", v |-> "array", items |-> xs]

TypeOf(x) == x.t

\* JavaScript truthiness: undefined, null, "" and 0 are falsy
Truthy(x) ==
    ~ \/ x.t = "undefined"
      \/ x = Null
      \/ (x.t = "string" /\ x.v = "")
      \/ (x.t = "number" /\ x.v = "0")

\* mutant of SetField: the value is appended to the property's old value
SetFieldAppend(obj, f, v) ==
    [x \in (DOMAIN obj) \cup {f} |->
       IF x = f THEN (IF f \in DOMAIN obj THEN obj[f] \o v ELSE v) ELSE obj[x]]

\* mutant of SetField: a fresh object holding only the assigned property
SetFieldOnly(obj, f, v) == [x \in {f} |-> v]

\* obj.f = v on a record: the property is set, every other one kept
SetField(obj, f, v) ==
    [x \in (DOMAIN obj) \cup {f} |-> IF x = f THEN v ELSE obj[x]]

(* ------------------------------ store ---------------------------------- *)
Keys == {"k1", "k2"}

Absent == [exists |-> FALSE]
Doc(c) == [exists |-> TRUE, content |-> c]

\* errors a store call rejects with
NoError == "none"
Faults == {NoError, "Timeout", "Unavailable"}

\* mutant of insert: an upsert, which overwrites a taken key
insertUpsert(st, id, data, fault) ==
    IF fault # NoError THEN [threw |-> fault, store |-> st, result |-> Undefined]
    ELSE [threw |-> NoError,
          store |-> [st EXCEPT ![id] = Doc(Obj(data))],
          result |-> Obj([cas |-> "cas"])]

\* collection.insert(id, data): rejects when the key is taken
insert(st, id, data, fault) ==
    IF fault # NoError THEN [threw |-> fault, store |-> st, result |-> Undefined]
    ELSE IF st[id] # Absent
      THEN [threw |-> "DocumentExists", store |-> st, result |-> Undefined]
    ELSE [threw |-> NoError,
          store |-> [st EXCEPT ![id] = Doc(Obj(data))],
          result |-> Obj([cas |-> "cas"])]

\* collection.get(key): rejects when there is no document under the key
get(st, key, fault) ==
    IF fault # NoError THEN [threw |-> fault, result |-> Undefined]
    ELSE IF st[key] = Absent
      THEN [threw |-> "DocumentNotFound", result |-> Undefined]
    ELSE [threw |-> NoError, result |-> Obj([content |-> st[key].content])]

\* collection.replace(key, updatedDocument): overwrites the whole document
replace(st, key, updatedDocument, fault) ==
    IF fault # NoError THEN [threw |-> fault, store |-> st]
    ELSE IF st[key] = Absent
      THEN [threw |-> "DocumentNotFound", store |-> st]
    ELSE [threw |-> NoError, store |-> [st EXCEPT ![key] = Doc(updatedDocument)]]

(* ----------------------------- responses ------------------------------- *)
Response(status, body) == [status |-> status, body |-> body]
Error(msg) == [error |-> msg]

(* ------------------------- request bookkeeping ------------------------- *)
NoTeam == Undefined
\* a handler suspended at an await
Suspended(op, pc, req, team, calls, seen) ==
    [op |-> op, pc |-> pc, req |-> req, team |-> team, calls |-> calls,
     seen |-> seen]
\* a new request is accepted while fewer than MaxInFlight are in flight
CanAccept == BagCardinality(rq) < MaxInFlight
NoLast == [op |-> "none", req |-> Undefined, rows |-> <<>>, responses |-> <<>>,
           calls |-> <<>>, thrown |-> NoError, seen |-> "n/a", again |-> FALSE]

\* a handler returns: its responses and store calls are recorded; `again`
\* tells that it is an update-team whose replace was applied and that the
\* handler that returned before it was the same request with the same outcome
Finish(op, req, rows, responses, calls, thrown, seen) ==
    /\ last' = [op |-> op, req |-> req, rows |-> rows, responses |-> responses,
                calls |-> calls, thrown |-> thrown, seen |-> seen,
                again |-> /\ op = "update"
                          /\ calls = <<"get", "replace">>
                          /\ thrown = NoError
                          /\ last.op = op
                          /\ last.req = req
                          /\ last.calls = calls
                          /\ last.thrown = thrown]

(* --------------------------- create league ----------------------------- *)
CreateIds == {Undefined, Str("k1")}
CreateNames == {Str(""), Str("A"), Num("7")}
CreateDescriptions == {Undefined, Str("d")}
CreateAdminIds == {Null, Str("u")}
CreateBodies ==
    {Undefined} \cup
    {Obj(f) : f \in [id : CreateIds, name : CreateNames,
                     description : CreateDescriptions, adminId : CreateAdminIds]}

\* mutant of createLeagueChecks: the typeof check is left out
createLeagueChecksNoType(body) ==
    IF ~Truthy(body)
      THEN <<Response(400, Error("Request body is missing"))>>
    ELSE IF ~(Truthy(body.fields.id) \/ Truthy(body.fields.name)
              \/ Truthy(body.fields.description) \/ Truthy(body.fields.adminId))
      THEN <<Response(400, Error("Missing required properties"))>>
    ELSE <<>>

\* the checks of createLeague before its first await: the 400 responses it
\* sends, or none when the body passes
createLeagueChecks(body) ==
    IF ~Truthy(body)
      THEN <<Response(400, Error("Request body is missing"))>>
    ELSE IF ~(Truthy(body.fields.id) \/ Truthy(body.fields.name)
              \/ Truthy(body.fields.description) \/ Truthy(body.fields.adminId))
      THEN <<Response(400, Error("Missing required properties"))>>
    ELSE IF \/ TypeOf(body.fields.id) # "string"
            \/ TypeOf(body.fields.name) # "string"
            \/ TypeOf(body.fields.description) # "string"
            \/ TypeOf(body.fields.adminId) # "string"
      THEN <<Response(400, Error("Invalid data type for properties"))>>
    ELSE <<>>

\* the league document LeagueService.toCreateLeague builds
toCreateLeague(id, name, description, adminId) ==
    [id |-> id, type |-> "mpg_league", adminId |-> adminId, name |-> name,
     description |-> description]

\* the catch block of createLeague: the error is logged, never sent
createLeagueCatch(err) ==
    Response(500, Error("An error occured whild creating the league"))

\* POST /leagues, up to the await of the insert
createLeague(body) ==
    /\ CanAccept
    /\ LET early == createLeagueChecks(body) IN
       IF early # <<>>
         THEN /\ Finish("create", [body |-> body], <<>>, early, <<>>,
                        NoError, "n/a")
              /\ UNCHANGED <<store, rq>>
         ELSE /\ rq' = rq (+) SetToBag({Suspended("create", "awaitInsert",
                            [body |-> body], NoTeam, <<"insert">>, "n/a")})
              /\ UNCHANGED <<store, last>>

\* mutant of createLeagueResume: a rejected insert is issued once more
createLeagueResumeRetry(q, fault) ==
    /\ q.pc = "awaitInsert"
    /\ LET b == q.req.body.fields
           out == insert(store, b.id.v,
                         toCreateLeague(b.id.v, b.name.v, b.description.v,
                                        b.adminId.v), fault)
       IN IF out.threw # NoError /\ Len(q.calls) < 2
            THEN /\ rq' = (rq (-) SetToBag({q})) (+)
                           SetToBag({[q EXCEPT !.calls = @ \o <<"insert">>]})
                 /\ UNCHANGED <<store, last>>
            ELSE /\ rq' = rq (-) SetToBag({q})
                 /\ store' = out.store
                 /\ Finish("create", q.req, <<>>,
                           IF out.threw = NoError
                             THEN <<Response(200, out.result)>>
                             ELSE <<createLeagueCatch(out.threw)>>,
                           q.calls, out.threw, "n/a")

\* the insert settles: res.json(result), or the catch block's 500
createLeagueResume(q, fault) ==
    /\ q.pc = "awaitInsert"
    /\ rq' = rq (-) SetToBag({q})
    /\ LET b == q.req.body.fields
           out == insert(store, b.id.v,
                         toCreateLeague(b.id.v, b.name.v, b.description.v,
                                        b.adminId.v), fault)
       IN /\ store' = out.store
          /\ Finish("create", q.req, <<>>,
                    IF out.threw = NoError
                      THEN <<Response(200, out.result)>>
                      ELSE <<createLeagueCatch(out.threw)>>,
                    q.calls, out.threw, "n/a")

(* ----------------------------- list users ------------------------------ *)
\* cluster.query(query, options): the rows the lookup yields, or a rejection
query(rows, fault) ==
    IF fault # NoError THEN [threw |-> fault, result |-> Undefined]
    ELSE [threw |-> NoError, result |-> [rows |-> rows]]

\* o[k] on an object with ordered own properties
GetProp(o, k) ==
    IF \E i \in 1..Len(o.entries) : o.entries[i][1] = k
      THEN o.entries[CHOOSE i \in 1..Len(o.entries) : o.entries[i][1] = k][2]
      ELSE Undefined

\* Object.keys(o)
ObjectKeys(o) == [i \in 1..Len(o.entries) |-> o.entries[i][1]]

IsArray(x) == x.t = "object" /\ x.v = "array"
IsMap(x) == x.t = "object" /\ x.v = "map"

\* Array.prototype.flat(): arrays among the elements are spliced in, one level
RECURSIVE Flat(_)
Flat(xs) ==
    IF xs = <<>> THEN <<>>
    ELSE (IF IsArray(Head(xs)) THEN Head(xs).items ELSE <<Head(xs)>>)
         \o Flat(Tail(xs))

\* xs[0]
First(xs) == IF xs = <<>> THEN Undefined ELSE xs[1]

\* Object.values(x) throws on undefined and null
ObjectValuesThrows(x) == x = Undefined \/ x = Null

\* mutant of ObjectValues: the keys instead of the values
ObjectValuesKeys(x) ==
    IF IsMap(x) THEN [i \in 1..Len(x.entries) |-> Str(x.entries[i][1])]
    ELSE IF IsArray(x) THEN x.items
    ELSE <<>>

\* Object.values(x), in the iteration order of x
ObjectValues(x) ==
    IF IsMap(x) THEN [i \in 1..Len(x.entries) |-> x.entries[i][2]]
    ELSE IF IsArray(x) THEN x.items
    ELSE <<>>

\* the users derived from the rows once the guard passed
usersFound(rows) ==
    LET userTeams == Flat([i \in 1..Len(rows) |-> GetProp(rows[i], "usersTeams")])
    IN IF ObjectValuesThrows(First(userTeams))
         THEN [threw |-> "TypeError", responses |-> <<>>]
         ELSE LET vals == ObjectValues(First(userTeams))
                  users == [i \in 1..Len(vals) |-> [name |-> vals[i]]]
              IN [threw |-> NoError,
                  responses |-> <<Response(200, [users |-> users])>>]

\* mutant of usersFromRows: the guard looks for any non-empty row
usersFromRowsAnyRow(rows) ==
    IF \E i \in 1..Len(rows) : Len(ObjectKeys(rows[i])) > 0
      THEN usersFound(rows)
      ELSE [threw |-> NoError, responses |-> <<Response(204, [users |-> <<>>])>>]

\* the body of getUsersFromLeague after the query resolved with `rows`
usersFromRows(rows) ==
    IF rows # <<>> /\ Truthy(rows[1]) /\ Len(ObjectKeys(rows[1])) > 0
      THEN usersFound(rows)
      ELSE [threw |-> NoError, responses |-> <<Response(204, [users |-> <<>>])>>]

LeagueIds == {Undefined, Str("k1")}

\* GET /leagues/:leagueId/users, up to the await of the query
getUsersFromLeague(leagueId) ==
    /\ CanAccept
    /\ IF ~Truthy(leagueId)
         THEN /\ Finish("list", [params |-> [leagueId |-> leagueId]], <<>>,
                        <<Response(400, Error("Request params is missing"))>>,
                        <<>>, NoError, "n/a")
              /\ UNCHANGED <<store, rq>>
         ELSE /\ rq' = rq (+) SetToBag({Suspended("list", "awaitQuery",
                            [params |-> [leagueId |-> leagueId]], NoTeam,
                            <<"query">>, "n/a")})
              /\ UNCHANGED <<store, last>>

\* the catch block of getUsersFromLeague
getUsersFromLeagueCatch(err) ==
    Response(500, Error("Error occured while retrieving users from a league"))

\* the query settles: the users of the first row, 204, or the catch block's 500
getUsersFromLeagueResume(q, rows, fault) ==
    /\ q.pc = "awaitQuery"
    /\ rq' = rq (-) SetToBag({q})
    /\ fault # NoError => rows = <<>>
    /\ LET out == query(rows, fault)
           res == IF out.threw # NoError
                    THEN [threw |-> out.threw, responses |-> <<>>]
                    ELSE usersFromRows(out.result.rows)
       IN Finish("list", q.req, rows,
                 IF res.threw # NoError THEN <<getUsersFromLeagueCatch(res.threw)>>
                 ELSE res.responses,
                 q.calls, res.threw, "n/a")
    /\ UNCHANGED store

(* ----------------------------- update team ----------------------------- *)
TeamIds == {Undefined, Str("k1"), Str("k2")}
UpdateNames == {Str(""), Str("A"), Str("B"), Num("7")}
UpdateBodies == {Undefined} \cup {Obj([name |-> n]) : n \in UpdateNames}

\* the checks of updateTeamName before its first await
updateTeamNameChecks(params, body) ==
    IF ~Truthy(body) \/ ~Truthy(params)
      THEN <<Response(400, Error("Request body or request params is undefined"))>>
    ELSE IF ~Truthy(params.fields.teamId) \/ ~Truthy(body.fields.name)
      THEN <<Response(400, Error("teamId and name are required"))>>
    ELSE IF TypeOf(params.fields.teamId) # "string"
            \/ TypeOf(body.fields.name) # "string"
      THEN <<Response(400, Error("Invalid data type for properties"))>>
    ELSE <<>>

\* PATCH /teams/:teamId, up to the await of the get
updateTeamName(params, body) ==
    /\ CanAccept
    /\ LET early == updateTeamNameChecks(params, body)
           req == [params |-> params, body |-> body]
       IN IF early # <<>>
            THEN /\ Finish("update", req, <<>>, early, <<>>, NoError, "n/a")
                 /\ UNCHANGED <<store, rq>>
            ELSE /\ rq' = rq (+) SetToBag({Suspended("update", "awaitGet", req,
                               NoTeam, <<"get">>, "n/a")})
                 /\ UNCHANGED <<store, last>>

\* mutant of updateTeamNameCatch: the error's text is sent to the client
updateTeamNameCatchLeak(err) == Response(500, Error(err))

\* the catch block of updateTeamName
updateTeamNameCatch(err) ==
    Response(500, Error("An error occured while updating team"))

\* what the get found under the key when it settled
Seen(st, key) ==
    IF st[key] = Absent THEN "absent"
    ELSE IF ~Truthy(st[key].content) THEN "nocontent" ELSE "found"

\* the get settles: 404, the catch block's 500, or team.name = name and the
\* replace is issued
updateTeamNameGot(q, fault) ==
    /\ q.pc = "awaitGet"
    /\ LET teamId == q.req.params.fields.teamId.v
           name == q.req.body.fields.name.v
           out == get(store, teamId, fault)
           seen == Seen(store, teamId)
       IN IF out.threw # NoError
            THEN /\ Finish("update", q.req, <<>>,
                           <<updateTeamNameCatch(out.threw)>>,
                           q.calls, out.threw, seen)
                 /\ rq' = rq (-) SetToBag({q})
          ELSE IF ~Truthy(out.result) \/ ~Truthy(out.result.fields.content)
            THEN /\ Finish("update", q.req, <<>>,
                           <<Response(404, Error("Team not found"))>>,
                           q.calls, NoError, seen)
                 /\ rq' = rq (-) SetToBag({q})
          ELSE /\ rq' = (rq (-) SetToBag({q})) (+)
                         SetToBag({Suspended("update", "awaitReplace", q.req,
                            Obj(SetField(out.result.fields.content.fields,
                                         "name", name)),
                            q.calls \o <<"replace">>, seen)})
               /\ UNCHANGED last
    /\ UNCHANGED store

\* the handlers suspended between their get and their replace of key t now
\* hold a copy that is no longer what is stored: their `seen` becomes "stale"
MarkStale(b, t) ==
    LET mark(x) == IF x.pc = "awaitReplace" /\ x.req.params.fields.teamId.v = t
                     THEN [x EXCEPT !.seen = "stale"] ELSE x
        marked == {mark(x) : x \in BagToSet(b)}
    IN [y \in marked |->
          BagCardinality([x \in {z \in BagToSet(b) : mark(z) = y} |-> b[x]])]

\* mutant of updateTeamNameReplaced: the replace carries a concurrency token
\* and is rejected when the document changed since the get
updateTeamNameReplacedCas(q, fault) ==
    /\ q.pc = "awaitReplace"
    /\ LET teamId == q.req.params.fields.teamId.v
           out == IF q.seen = "stale" /\ fault = NoError
                    THEN [threw |-> "CasMismatch", store |-> store]
                    ELSE replace(store, teamId, q.team, fault)
       IN /\ store' = out.store
          /\ rq' = IF out.store # store
                     THEN MarkStale(rq (-) SetToBag({q}), teamId)
                     ELSE rq (-) SetToBag({q})
          /\ Finish("update", q.req, <<>>,
                    IF out.threw = NoError
                      THEN <<Response(200,
                               [message |-> "Team name updated successfully"])>>
                      ELSE <<updateTeamNameCatch(out.threw)>>,
                    q.calls, out.threw, q.seen)

\* the replace settles: 200, or the catch block's 500
updateTeamNameReplaced(q, fault) ==
    /\ q.pc = "awaitReplace"
    /\ LET teamId == q.req.params.fields.teamId.v
           out == replace(store, teamId, q.team, fault)
       IN /\ store' = out.store
          /\ rq' = IF out.store # store
                     THEN MarkStale(rq (-) SetToBag({q}), teamId)
                     ELSE rq (-) SetToBag({q})
          /\ Finish("update", q.req, <<>>,
                    IF out.threw = NoError
                      THEN <<Response(200,
                               [message |-> "Team name updated successfully"])>>
                      ELSE <<updateTeamNameCatch(out.threw)>>,
                    q.calls, out.threw, q.seen)

(* ------------------------------ system --------------------------------- *)
\* the values a row's usersTeams takes
MapAB == MapV(<< <<"u1", Str("Alice")>>, <<"u2", Str("Bob")>> >>)
MapC == MapV(<< <<"u9", Str("Carol")>> >>)
MapEmpty == MapV(<<>>)
EmptyRow == MapV(<<>>)
RowOf(x) == MapV(<< <<"usersTeams", x>> >>)
RowVals == {EmptyRow, RowOf(MapAB), RowOf(MapEmpty), RowOf(Null),
            RowOf(ArrV(<<MapC>>))}
RECURSIVE SeqsUpTo(_, _)
SeqsUpTo(S, n) ==
    IF n = 0 THEN {<<>>}
    ELSE SeqsUpTo(S, n - 1) \cup
         {Append(q, x) : q \in {p \in SeqsUpTo(S, n - 1) : Len(p) = n - 1}, x \in S}
RowSeqs == SeqsUpTo(RowVals, MaxRows)
TeamDoc == Doc(Obj([name |-> "T", owner |-> "o"]))
NullDoc == Doc(Null)

Init ==
    /\ store \in {[k \in Keys |-> IF k = "k2" THEN d2 ELSE Absent]
                  : d2 \in {TeamDoc, NullDoc}}
    /\ rq = EmptyBag
    /\ last = NoLast

Next ==
    \/ \E body \in CreateBodies : createLeague(body)
    \/ \E q \in BagToSet(rq), fault \in Faults : createLeagueResume(q, fault)
    \/ \E leagueId \in LeagueIds : getUsersFromLeague(leagueId)
    \/ \E q \in BagToSet(rq), rows \in RowSeqs, fault \in Faults :
          getUsersFromLeagueResume(q, rows, fault)
    \/ \E teamId \in TeamIds, body \in UpdateBodies :
          updateTeamName(Obj([teamId |-> teamId]), body)
    \/ \E q \in BagToSet(rq), fault \in Faults : updateTeamNameGot(q, fault)
    \/ \E q \in BagToSet(rq), fault \in Faults : updateTeamNameReplaced(q, fault)

Spec == Init /\ [][Next]_vars

(* ------------------------------ claims --------------------------------- *)
\* the request recorded last got exactly one response, with this status
Answered(status) ==
    Len(last.responses) = 1 /\ last.responses[1].status = status

\* the store call of the request recorded last was rejected by the store
StoreFailures == {"Timeout", "Unavailable"}

\* C1 (as claimed): an update-team with valid input whose teamId has no
\* document in the store is answered 404 and issues no replace.
C1_MissingTeamIs404 ==
    (last.op = "update" /\ last.seen = "absent"
       /\ last.thrown \notin StoreFailures)
    => (Answered(404) /\ last.calls = <<"get">>)

\* C2 (as claimed): a create-league whose body has at least one falsy field
\* among id, name, description, adminId is answered 400 and issues no insert.
C2_AnyFalsyFieldIs400 ==
    (last.op = "create" /\ Truthy(last.req.body)
       /\ \E f \in {"id", "name", "description", "adminId"} :
            ~Truthy(last.req.body.fields[f]))
    => (Answered(400) /\ last.calls = <<>>)

\* a stored league document
IsLeague(d) ==
    /\ d.exists
    /\ Truthy(d.content)
    /\ "type" \in DOMAIN d.content.fields
    /\ d.content.fields.type = "mpg_league"

\* C3 (as claimed): once a league document is stored under a key, no step of
\* any of the three operations changes the document under that key.
C3_LeagueImmutable ==
    [][\A k \in Keys : IsLeague(store[k]) => store'[k] = store[k]]_vars

\* the suspended handler q resumes and returns in this step
Returns(q, pc) ==
    /\ q.pc = pc
    /\ BagCardinality(rq') = BagCardinality(rq) - 1
    /\ last'.op = q.op
    /\ last'.req = q.req
    /\ last'.calls = q.calls

\* C4: when the insert of a create-league with four non-empty string fields
\* settles, then if the id was not in the store and the store did not fail the
\* answer is 200 and the league document is stored under the id; if the id
\* was already in the store the answer is 500 and the store is unchanged.
C4_CreateOnceThenConflict ==
    [][\A q \in BagToSet(rq) :
         (Returns(q, "awaitInsert")
            /\ \A f \in {"id", "name", "description", "adminId"} :
                 q.req.body.fields[f].v # "")
         => LET b == q.req.body.fields IN
            IF store[b.id.v] = Absent
              THEN last'.thrown \notin StoreFailures
                   => /\ last'.responses = <<Response(200, Obj([cas |-> "cas"]))>>
                      /\ store' = [store EXCEPT ![b.id.v] =
                           Doc(Obj([id |-> b.id.v, type |-> "mpg_league",
                                    adminId |-> b.adminId.v, name |-> b.name.v,
                                    description |-> b.description.v]))]
              ELSE /\ Len(last'.responses) = 1
                   /\ last'.responses[1].status = 500
                   /\ store' = store]_vars

\* C4 witness: a create-league was refused because its id was already stored
C4_Witness ==
    /\ last.op = "create"
    /\ last.thrown = "DocumentExists"
    /\ Answered(500)
    /\ IsLeague(store["k1"])

\* C5: when the replace of an update-team settles without a store failure,
\* the stored document's name is the new name, its other fields are what they
\* were, every other key is unchanged, and the answer is 200 with the fixed
\* message.
C5_UpdateFrame ==
    [][\A q \in BagToSet(rq) :
         (Returns(q, "awaitReplace") /\ last'.thrown = NoError)
         => LET t == q.req.params.fields.teamId.v
                n == q.req.body.fields.name.v
                before == store[t].content.fields
                after == store'[t].content.fields
            IN /\ after.name = n
               /\ DOMAIN after = DOMAIN before \cup {"name"}
               /\ \A f \in DOMAIN before \ {"name"} : after[f] = before[f]
               /\ \A k \in Keys \ {t} : store'[k] = store[k]
               /\ last'.responses =
                    <<Response(200, [message |-> "Team name updated successfully"])>>]_vars

\* C5 witness: team k2 was renamed to B and still has its owner
C5_Witness ==
    /\ last.op = "update"
    /\ Answered(200)
    /\ last.req.params.fields.teamId = Str("k2")
    /\ last.req.body.fields.name = Str("B")
    /\ store["k2"] = Doc(Obj([name |-> "B", owner |-> "o"]))

\* the first row of the last query carries a usersTeams mapping
FirstRowHasMapping ==
    /\ last.op = "list"
    /\ last.rows # <<>>
    /\ Len(last.rows[1].entries) = 1
    /\ last.rows[1].entries[1][1] = "usersTeams"
    /\ IsMap(last.rows[1].entries[1][2])

QueryResolved ==
    /\ last.op = "list"
    /\ last.calls = <<"query">>
    /\ last.thrown \notin StoreFailures

\* C7: when the query resolved with no rows, or with a first row that is the
\* empty object, the answer is 204 with an empty users list.
C7_NoRowsOrEmptyFirstRow ==
    (QueryResolved /\ (last.rows = <<>> \/ last.rows[1].entries = <<>>))
    => last.responses = <<Response(204, [users |-> <<>>])>>

\* C7 witness: the first row is {} and a later row carries users
C7_Witness ==
    /\ QueryResolved
    /\ Len(last.rows) = 2
    /\ last.rows[1].entries = <<>>
    /\ last.rows[2].entries # <<>>
    /\ Answered(204)

\* C8 (as claimed): a 200 answer of list-users carries a non-empty users list.
C8_Ok200HasUsers ==
    (last.op = "list" /\ Answered(200))
    => last.responses[1].body.users # <<>>

\* C9: a create-league in which a field is absent or not a string (or whose
\* body is absent) gets exactly one answer, 400, and issues no insert.
C9_NonStringFieldIs400 ==
    (last.op = "create"
       /\ (last.req.body = Undefined
           \/ \E f \in {"id", "name", "description", "adminId"} :
                last.req.body.fields[f].t # "string"))
    => (Answered(400) /\ last.calls = <<>>)

\* C9 witness: only the name is not a string, and it is truthy
C9_Witness ==
    /\ last.op = "create"
    /\ last.req.body # Undefined
    /\ last.req.body.fields.name = Num("7")
    /\ last.req.body.fields.id = Str("k1")
    /\ last.req.body.fields.description = Str("d")
    /\ last.req.body.fields.adminId = Str("u")
    /\ Answered(400)

\* the fixed error text of each endpoint
FixedError(op) ==
    IF op = "create" THEN "An error occured whild creating the league"
    ELSE IF op = "list" THEN "Error occured while retrieving users from a league"
    ELSE "An error occured while updating team"

C11_UpdateIdempotent ==
    [][\A q \in BagToSet(rq) :
         (Returns(q, "awaitReplace") /\ last'.thrown = NoError
            /\ last.op = "update" /\ last.req = q.req
            /\ last.calls = <<"get", "replace">> /\ last.thrown = NoError)
         => store' = store]_vars

\* C11 witness: the same rename of team k2 was applied twice in a row
C11_Witness ==
    /\ last.again
    /\ last.req.params.fields.teamId = Str("k2")
    /\ last.req.body.fields.name = Str("A")
    /\ store["k2"] = Doc(Obj([name |-> "A", owner |-> "o"]))
    /\ rq = EmptyBag

\* C12: whatever the interleaving, an update-team that reached its replace
\* without a store failure is answered 200, also when another rename of the
\* same team was applied between its get and its replace; the stored name is
\* the name of the update-team whose replace was applied last, and the other
\* fields of the document are the original ones.
C12_LastWriteWins ==
    (last.op = "update" /\ last.calls = <<"get", "replace">>
       /\ last.thrown \notin StoreFailures)
    => LET t == last.req.params.fields.teamId.v
           n == last.req.body.fields.name.v
           doc == store[t].content.fields
       IN /\ Answered(200)
          /\ doc.name = n
          /\ t = "k2" => doc = [name |-> n, owner |-> "o"]
          /\ t = "k1" => doc = [id |-> "k1", type |-> "mpg_league",
                                 adminId |-> "u", name |-> n,
                                 description |-> "d"]

\* C12 witness: every request has completed; the rename of k2 to B fetched
\* the team, another rename was applied, then B's replace overwrote it
C12_Witness ==
    /\ rq = EmptyBag
    /\ last.op = "update"
    /\ last.seen = "stale"
    /\ Answered(200)
    /\ last.req.params.fields.teamId = Str("k2")
    /\ last.req.body.fields.name = Str("B")
    /\ store["k2"] = Doc(Obj([name |-> "B", owner |-> "o"]))

\* the store calls a request may have issued, given what its get found
CallsAllowed(x) ==
    /\ x.op = "create" => x.calls \in {<<>>, <<"insert">>}
    /\ x.op = "list" => x.calls \in {<<>>, <<"query">>}
    /\ x.op = "update" =>
         /\ x.calls \in {<<>>, <<"get">>, <<"get", "replace">>}
         /\ x.calls = <<"get", "replace">> => x.seen \in {"found", "stale"}

\* C13: no request, in flight or returned, has issued a store call twice: a
\* create-league at most one insert, a list-users at most one query and no
\* write, an update-team at most one get then at most one replace, the
\* replace only after the get found a document with content.
C13_NoRetry ==
    /\ CallsAllowed(last)
    /\ \A q \in BagToSet(rq) :
         /\ CallsAllowed(q)
         /\ q.pc = "awaitInsert" => q.calls = <<"insert">>
         /\ q.pc = "awaitQuery" => q.calls = <<"query">>
         /\ q.pc = "awaitGet" => q.calls = <<"get">>
         /\ q.pc = "awaitReplace" => q.calls = <<"get", "replace">>

\* C13 witness: an insert was rejected by the store and the handler returned
\* with that one call, nothing being left in flight
C13_Witness ==
    /\ rq = EmptyBag
    /\ last.op = "create"
    /\ last.calls = <<"insert">>
    /\ last.thrown = "Timeout"
    /\ Answered(500)
====
